---- MODULE Spec2Model ----
(***************************************************************************)
(* Model of the two HTTP middlewares of github.com/teamwork/middleware:    *)
(*   rescueMiddleware.Rescue        (rescueMiddleware/rescue.go)           *)
(*   securityMiddleware.WithConfig  (securityMiddleware/security.go)       *)
(* One behaviour is one request served through one of the two wrappers.    *)
(* The http.ResponseWriter is modelled by its documented contract: the     *)
(* first WriteHeader commits the status together with a snapshot of the    *)
(* header map, later WriteHeader calls and later header changes have no    *)
(* effect, and a Write before any WriteHeader commits status 200.          *)
(***************************************************************************)
EXTENDS Integers, Sequences, FiniteSets, TLC

VARIABLES
    pc,           \* position of the request inside the wrapper
    r,            \* the request: Host and the X-Requested-With header
    w,            \* the http.ResponseWriter
    dev,          \* Rescue's dev argument
    extraFields,  \* Rescue's extraFields argument: "nil" or "func"
    l,            \* the *log.Entry of the request
    panicking,    \* value of the panic in flight (Nil when none)
    rec,          \* result of recover() in the deferred function
    err,          \* the classified error
    logRecords,   \* records received by the logging sink
    events,       \* history: steps of the wrapper, in order
    nextCalls,    \* number of next.ServeHTTP invocations
    handlerOps,   \* number of response operations done by the handler
    wNext,        \* history: the ResponseWriter as the handler left it
    config,       \* WithConfig's config argument
    rootDomain,   \* WithConfig's rootDomain argument
    csp,          \* local csp of WithConfig
    cspReport     \* local cspReport of WithConfig

vars == <<pc, r, w, dev, extraFields, l, panicking, rec, err, logRecords,
          events, nextCalls, handlerOps, wNext, config, rootDomain, csp,
          cspReport>>

rescueVars == <<dev, extraFields, l, panicking, rec, err, logRecords>>
securityVars == <<config, rootDomain, csp, cspReport>>

-----------------------------------------------------------------------------
(* Bounds *)

MaxHandlerOps == 2
MaxHostLen == 3
MaxRootLen == 2

-----------------------------------------------------------------------------
(* Go values that can be passed to panic(), and errors *)

Nil == [kind |-> "nil"]

NewError(msg) == [kind |-> "error", msg |-> msg]
StringVal(s) == [kind |-> "string", val |-> s]
IntVal(n) == [kind |-> "int", val |-> n]
MapVal(entries) == [kind |-> "map", entries |-> entries]

IsError(v) == v.kind = "error"

ErrBoom == NewError("boom")

\* The keys a map[string]interface{} fault may carry in this model.
EmptyEntries == [k \in {} |-> Nil]

Faults ==
    { ErrBoom,
      StringVal("boom"),
      IntVal(42),
      MapVal([k \in {"error"} |-> ErrBoom]),
      MapVal([k \in {"error"} |-> StringVal("oops")]),
      MapVal([k \in {"code"} |-> IntVal(42)]),
      MapVal([k \in {"error", "code"} |-> IF k = "error" THEN NewError("bad") ELSE IntVal(7)]),
      MapVal(EmptyEntries) }

\* A Go runtime error raised by a method call on a nil interface value.
NilDeref == [kind |-> "runtime", msg |-> "invalid memory address or nil pointer dereference"]

\* fmt's %v verb on a value that is not a map.
FormatScalar(v) ==
    CASE v.kind = "nil" -> "%!v(<nil>)"
      [] v.kind = "error" -> v.msg
      [] v.kind = "string" -> v.val
      [] OTHER -> ToString(v.val)

\* fmt prints the entries of a map in sorted key order.
SortedKeys == <<"code", "error">>

RECURSIVE FormatEntries(_, _)
FormatEntries(entries, keys) ==
    IF Len(keys) = 0 THEN ""
    ELSE LET rest == FormatEntries(entries, Tail(keys))
         IN  IF keys[1] \in DOMAIN entries
             THEN keys[1] \o ":" \o FormatScalar(entries[keys[1]])
                  \o (IF rest = "" THEN "" ELSE " " \o rest)
             ELSE rest

\* fmt's %v verb.
FormatV(v) ==
    IF v.kind = "map"
    THEN "map[" \o FormatEntries(v.entries, SortedKeys) \o "]"
    ELSE FormatScalar(v)

\* pretty.Errorf("%v", rec)
Errorf(v) == NewError(FormatV(v))

\* The type switch of the deferred function.
Classify(v) ==
    CASE IsError(v) -> v
      [] v.kind = "map" ->
            IF "error" \in DOMAIN v.entries /\ IsError(v.entries["error"])
            THEN v.entries["error"]
            ELSE Nil
      [] OTHER -> Errorf(v)

-----------------------------------------------------------------------------
(* The http.ResponseWriter *)

HeaderNames ==
    { "Content-Type", "X-Frame-Options", "Content-Security-Policy",
      "Content-Security-Policy-Report-Only", "Strict-Transport-Security",
      "X-Content-Type-Options" }

NoHeaders == [h \in HeaderNames |-> <<>>]

NewResponseWriter ==
    [header |-> NoHeaders, wroteHeader |-> FALSE, status |-> 0,
     sent |-> NoHeaders, body |-> <<>>]

HeaderSet(rw, name, value) ==
    [rw EXCEPT !.header = [@ EXCEPT ![name] = <<value>>]]

HeaderAdd(rw, name, value) ==
    [rw EXCEPT !.header = [@ EXCEPT ![name] = Append(@, value)]]

WriteHeader(rw, code) ==
    IF rw.wroteHeader
    THEN rw
    ELSE [rw EXCEPT !.wroteHeader = TRUE, !.status = code, !.sent = rw.header]

Write(rw, b) ==
    [WriteHeader(rw, 200) EXCEPT !.body = Append(@, b)]

StatusInternalServerError == 500

-----------------------------------------------------------------------------
(* Rescue *)

XHR == "XMLHttpRequest"

Apology == "Sorry, the server ran into a problem processing this request."

\* json.Marshal(map[string]interface{}{"message": Apology})
ApologyJSON == "{\"message\":\"" \o Apology \o "\"}"

\* debug.Stack()
Stack == "goroutine 1 [running]:"

\* fmt.Sprintf("<h2>%v</h2><pre>%s</pre>", err, debug.Stack())
DevHTML(e) == "<h2>" \o FormatV(e) \o "</h2><pre>" \o Stack \o "</pre>"

\* log.Module("panic handler")
LogModule == [module |-> "panic handler", fields |-> {}]

\* The caller's extraFields callback: attaches request-scoped fields.
ExtraFieldsFunc(req, entry) == [entry EXCEPT !.fields = @ \cup {"installation"}]

InitRescue ==
    /\ pc = "start"
    /\ r \in [Host : {<<>>}, XRequestedWith : {"", XHR, "fetch"}]
    /\ w = NewResponseWriter
    /\ dev \in BOOLEAN
    /\ extraFields \in {"nil", "func"}
    /\ l = Nil
    /\ panicking = Nil
    /\ rec = Nil
    /\ err = Nil
    /\ logRecords = <<>>
    /\ events = <<>>
    /\ nextCalls = 0
    /\ handlerOps = 0
    /\ wNext = NewResponseWriter
    /\ config = [XFrameOptions |-> "", ContentSecurityPolicy |-> EmptyEntries,
                 ContentSecurityPolicyReportOnly |-> EmptyEntries,
                 StrictTransportSecurity |-> "", XContentTypeOptions |-> ""]
    /\ rootDomain = <<>>
    /\ csp = ""
    /\ cspReport = ""

\* l := log.Module("panic handler"); defer func() {...}(); next.ServeHTTP(w, r)
RescueEnter ==
    /\ pc = "start"
    /\ l' = LogModule
    /\ nextCalls' = nextCalls + 1
    /\ events' = Append(events, "next")
    /\ pc' = "handler"
    /\ UNCHANGED <<r, w, dev, extraFields, panicking, rec, err, logRecords,
                   handlerOps, wNext>>
    /\ UNCHANGED securityVars

\* The downstream handler sets a response header.
HandlerSetHeader ==
    /\ pc = "handler"
    /\ handlerOps < MaxHandlerOps
    /\ \E v \in {"text/html", "application/json"} :
          w' = HeaderSet(w, "Content-Type", v)
    /\ handlerOps' = handlerOps + 1
    /\ UNCHANGED <<pc, r, events, nextCalls, wNext>>
    /\ UNCHANGED rescueVars
    /\ UNCHANGED securityVars

\* The downstream handler writes a status.
HandlerWriteHeader ==
    /\ pc = "handler"
    /\ handlerOps < MaxHandlerOps
    /\ \E code \in {200, 404} : w' = WriteHeader(w, code)
    /\ handlerOps' = handlerOps + 1
    /\ UNCHANGED <<pc, r, events, nextCalls, wNext>>
    /\ UNCHANGED rescueVars
    /\ UNCHANGED securityVars

\* The downstream handler writes part of a body.
HandlerWrite ==
    /\ pc = "handler"
    /\ handlerOps < MaxHandlerOps
    /\ w' = Write(w, "partial")
    /\ handlerOps' = handlerOps + 1
    /\ UNCHANGED <<pc, r, events, nextCalls, wNext>>
    /\ UNCHANGED rescueVars
    /\ UNCHANGED securityVars

\* The downstream handler returns normally; the deferred function runs.
HandlerReturn ==
    /\ pc = "handler"
    /\ wNext' = w
    /\ pc' = "deferred"
    /\ UNCHANGED <<r, w, events, nextCalls, handlerOps>>
    /\ UNCHANGED rescueVars
    /\ UNCHANGED securityVars

\* The downstream handler panics; the deferred function runs.
HandlerPanic ==
    /\ pc = "handler"
    /\ \E v \in Faults : panicking' = v
    /\ wNext' = w
    /\ pc' = "deferred"
    /\ UNCHANGED <<r, w, events, nextCalls, handlerOps, dev, extraFields, l,
                   rec, err, logRecords>>
    /\ UNCHANGED securityVars

\* Recover without the early return on a nil recover().
RecoverNoNilCheck ==
    /\ pc = "deferred"
    /\ rec' = panicking
    /\ panicking' = Nil
    /\ pc' = "classify"
    /\ UNCHANGED <<r, w, dev, extraFields, l, err, logRecords, events,
                   nextCalls, handlerOps, wNext>>
    /\ UNCHANGED securityVars

\* rec := recover(); if rec == nil { return }
Recover ==
    /\ pc = "deferred"
    /\ rec' = panicking
    /\ panicking' = Nil
    /\ pc' = IF panicking = Nil THEN "done" ELSE "classify"
    /\ UNCHANGED <<r, w, dev, extraFields, l, err, logRecords, events,
                   nextCalls, handlerOps, wNext>>
    /\ UNCHANGED securityVars

\* switch rec := rec.(type) {...}
ClassifyFault ==
    /\ pc = "classify"
    /\ err' = Classify(rec)
    /\ events' = Append(events, "classify")
    /\ pc' = "extraFields"
    /\ UNCHANGED <<r, w, dev, extraFields, l, panicking, rec, logRecords,
                   nextCalls, handlerOps, wNext>>
    /\ UNCHANGED securityVars

\* if extraFields != nil { l = extraFields(r, l) }
EnrichLog ==
    /\ pc = "extraFields"
    /\ IF extraFields # "nil"
       THEN /\ l' = ExtraFieldsFunc(r, l)
            /\ events' = Append(events, "extraFields")
       ELSE UNCHANGED <<l, events>>
    /\ pc' = "log"
    /\ UNCHANGED <<r, w, dev, extraFields, panicking, rec, err, logRecords,
                   nextCalls, handlerOps, wNext>>
    /\ UNCHANGED securityVars

\* l.Err(err)
LogErr ==
    /\ pc = "log"
    /\ logRecords' = Append(logRecords, [level |-> "error", err |-> err, entry |-> l])
    /\ events' = Append(events, "log")
    /\ pc' = "writeHeader"
    /\ UNCHANGED <<r, w, dev, extraFields, l, panicking, rec, err,
                   nextCalls, handlerOps, wNext>>
    /\ UNCHANGED securityVars

\* RescueWriteHeader without the WriteHeader call.
RescueWriteHeaderSkipped ==
    /\ pc = "writeHeader"
    /\ events' = Append(events, "WriteHeader")
    /\ pc' = "body"
    /\ UNCHANGED <<r, w, nextCalls, handlerOps, wNext>>
    /\ UNCHANGED rescueVars
    /\ UNCHANGED securityVars

\* w.WriteHeader(http.StatusInternalServerError)
RescueWriteHeader ==
    /\ pc = "writeHeader"
    /\ w' = WriteHeader(w, StatusInternalServerError)
    /\ events' = Append(events, "WriteHeader")
    /\ pc' = "body"
    /\ UNCHANGED <<r, nextCalls, handlerOps, wNext>>
    /\ UNCHANGED rescueVars
    /\ UNCHANGED securityVars

\* switch { case dev: ... case XHR: ... default: ... }
\* err.Error() on a nil err panics inside the deferred function, after
\* recover() has already been consumed: that panic leaves the wrapper.
RescueWriteBody ==
    /\ pc = "body"
    /\ IF dev /\ r.XRequestedWith = XHR /\ err = Nil
       THEN /\ panicking' = NilDeref
            /\ pc' = "panicked"
            /\ UNCHANGED <<w, events>>
       ELSE /\ w' = CASE dev /\ r.XRequestedWith = XHR -> Write(w, err.msg)
                      [] dev /\ r.XRequestedWith # XHR -> Write(w, DevHTML(err))
                      [] ~dev /\ r.XRequestedWith = XHR ->
                            Write(HeaderAdd(w, "Content-Type", "application/json"),
                                  ApologyJSON)
                      [] OTHER -> Write(w, Apology)
            /\ events' = Append(events, "Write")
            /\ pc' = "done"
            /\ UNCHANGED panicking
    /\ UNCHANGED <<r, dev, extraFields, l, rec, err, logRecords, nextCalls,
                   handlerOps, wNext>>
    /\ UNCHANGED securityVars

-----------------------------------------------------------------------------
(* Security *)

Alphabet == {"a", "b"}

SeqsUpTo(n) == UNION { [1..k -> Alphabet] : k \in 0..n }

\* strings.HasPrefix(s, prefix)
HasPrefix(s, prefix) ==
    /\ Len(s) >= Len(prefix)
    /\ SubSeq(s, 1, Len(prefix)) = prefix

\* strings.HasSuffix(s, suffix)
HasSuffix(s, suffix) ==
    /\ Len(s) >= Len(suffix)
    /\ SubSeq(s, Len(s) - Len(suffix) + 1, Len(s)) = suffix

\* strings.Join(v, sep)
RECURSIVE Join(_, _)
Join(v, sep) ==
    IF Len(v) = 0 THEN ""
    ELSE IF Len(v) = 1 THEN v[1]
    ELSE v[1] \o sep \o Join(Tail(v), sep)

\* The orders in which a range loop may visit the keys of a map.
RangeOrders(m) ==
    { o \in [1..Cardinality(DOMAIN m) -> DOMAIN m] :
        \A i, j \in DOMAIN o : i # j => o[i] # o[j] }

\* for k, v := range m { s += fmt.Sprintf("%v %v;", k, strings.Join(v, " ")) }
RECURSIVE SerializePolicy(_, _)
SerializePolicy(m, order) ==
    IF Len(order) = 0 THEN ""
    ELSE order[1] \o " " \o Join(m[order[1]], " ") \o ";"
         \o SerializePolicy(m, Tail(order))

Directives == {"default-src", "img-src"}

Sources == { <<>>, <<"*", "data:">> }

PolicyMaps == UNION { [ks -> Sources] : ks \in SUBSET Directives }

DefaultConfig ==
    [XFrameOptions |-> "SAMEORIGIN",
     ContentSecurityPolicy |-> EmptyEntries,
     ContentSecurityPolicyReportOnly |-> EmptyEntries,
     StrictTransportSecurity |-> "max-age=2592000",
     XContentTypeOptions |-> "nosniff"]

Configs ==
    [XFrameOptions : {"", "SAMEORIGIN"},
     ContentSecurityPolicy : PolicyMaps,
     ContentSecurityPolicyReportOnly : PolicyMaps,
     StrictTransportSecurity : {"", "max-age=2592000"},
     XContentTypeOptions : {"", "nosniff"}]

InitSecurity ==
    /\ pc = "csp"
    /\ r \in [Host : SeqsUpTo(MaxHostLen), XRequestedWith : {""}]
    /\ w = NewResponseWriter
    /\ config \in Configs
    /\ rootDomain \in SeqsUpTo(MaxRootLen)
    /\ csp = ""
    /\ cspReport = ""
    /\ dev = FALSE
    /\ extraFields = "nil"
    /\ l = Nil
    /\ panicking = Nil
    /\ rec = Nil
    /\ err = Nil
    /\ logRecords = <<>>
    /\ events = <<>>
    /\ nextCalls = 0
    /\ handlerOps = 0
    /\ wNext = NewResponseWriter

\* csp := ""; for k, v := range config.ContentSecurityPolicy {...}
SerializeCSP ==
    /\ pc = "csp"
    /\ \E order \in RangeOrders(config.ContentSecurityPolicy) :
          csp' = SerializePolicy(config.ContentSecurityPolicy, order)
    /\ pc' = "cspReport"
    /\ UNCHANGED <<r, w, events, nextCalls, handlerOps, wNext, config,
                   rootDomain, cspReport>>
    /\ UNCHANGED rescueVars

\* cspReport := ""; for k, v := range config.ContentSecurityPolicyReportOnly {...}
SerializeCSPReport ==
    /\ pc = "cspReport"
    /\ \E order \in RangeOrders(config.ContentSecurityPolicyReportOnly) :
          cspReport' = SerializePolicy(config.ContentSecurityPolicyReportOnly, order)
    /\ pc' = "setXFrameOptions"
    /\ UNCHANGED <<r, w, events, nextCalls, handlerOps, wNext, config,
                   rootDomain, csp>>
    /\ UNCHANGED rescueVars

\* if cond { w.Header().Set(name, value) }, then on to the next statement
SetHeaderIf(at, cond, name, value, to) ==
    /\ pc = at
    /\ IF cond
       THEN /\ w' = HeaderSet(w, name, value)
            /\ events' = Append(events, name)
       ELSE UNCHANGED <<w, events>>
    /\ pc' = to
    /\ UNCHANGED <<r, nextCalls, handlerOps, wNext>>
    /\ UNCHANGED securityVars
    /\ UNCHANGED rescueVars

\* if config.XFrameOptions != "" {...}
SetXFrameOptions ==
    SetHeaderIf("setXFrameOptions", config.XFrameOptions # "",
                "X-Frame-Options", config.XFrameOptions, "setCSP")

\* if csp != "" {...}
SetCSP ==
    SetHeaderIf("setCSP", csp # "", "Content-Security-Policy", csp,
                "setCSPReport")

\* if cspReport != "" {...}
SetCSPReport ==
    SetHeaderIf("setCSPReport", cspReport # "",
                "Content-Security-Policy-Report-Only", cspReport, "setSTS")

\* if config.StrictTransportSecurity != "" && strings.HasSuffix(r.Host, rootDomain) {...}
SetStrictTransportSecurity ==
    SetHeaderIf("setSTS",
                config.StrictTransportSecurity # "" /\ HasSuffix(r.Host, rootDomain),
                "Strict-Transport-Security", config.StrictTransportSecurity,
                "setXContentTypeOptions")

\* SetXContentTypeOptions without the test for an empty directive.
SetXContentTypeOptionsAlways ==
    SetHeaderIf("setXContentTypeOptions", TRUE,
                "X-Content-Type-Options", config.XContentTypeOptions,
                "serveNext")

\* if config.XContentTypeOptions != "" {...}
SetXContentTypeOptions ==
    SetHeaderIf("setXContentTypeOptions", config.XContentTypeOptions # "",
                "X-Content-Type-Options", config.XContentTypeOptions,
                "serveNext")

\* SecurityServeNext that delegates only for hosts under rootDomain.
SecurityServeNextShortCircuit ==
    /\ pc = "serveNext"
    /\ IF HasSuffix(r.Host, rootDomain)
       THEN /\ nextCalls' = nextCalls + 1
            /\ events' = Append(events, "next")
            /\ wNext' = w
       ELSE UNCHANGED <<nextCalls, events, wNext>>
    /\ pc' = "returned"
    /\ UNCHANGED <<r, w, handlerOps>>
    /\ UNCHANGED securityVars
    /\ UNCHANGED rescueVars

\* next.ServeHTTP(w, r)
SecurityServeNext ==
    /\ pc = "serveNext"
    /\ nextCalls' = nextCalls + 1
    /\ events' = Append(events, "next")
    /\ wNext' = w
    /\ pc' = "returned"
    /\ UNCHANGED <<r, w, handlerOps>>
    /\ UNCHANGED securityVars
    /\ UNCHANGED rescueVars

-----------------------------------------------------------------------------
(* One request through one of the two wrappers *)

RescuePCs == {"start", "handler", "deferred", "classify", "extraFields",
              "log", "writeHeader", "body", "done", "panicked"}

SecurityPCs == {"csp", "cspReport", "setXFrameOptions", "setCSP",
                "setCSPReport", "setSTS", "setXContentTypeOptions",
                "serveNext", "returned"}

NextRescue ==
    \/ RescueEnter
    \/ HandlerSetHeader
    \/ HandlerWriteHeader
    \/ HandlerWrite
    \/ HandlerReturn
    \/ HandlerPanic
    \/ Recover
    \/ ClassifyFault
    \/ EnrichLog
    \/ LogErr
    \/ RescueWriteHeader
    \/ RescueWriteBody

NextSecurity ==
    \/ SerializeCSP
    \/ SerializeCSPReport
    \/ SetXFrameOptions
    \/ SetCSP
    \/ SetCSPReport
    \/ SetStrictTransportSecurity
    \/ SetXContentTypeOptions
    \/ SecurityServeNext

Init == InitRescue \/ InitSecurity

Next == NextRescue \/ NextSecurity

\* A request through Rescue.
SpecRescue == InitRescue /\ [][NextRescue]_vars

\* A request through WithConfig.
SpecSecurity == InitSecurity /\ [][NextSecurity]_vars

\* A request through either wrapper.
Spec == Init /\ [][Next]_vars

TypeOK == pc \in RescuePCs \cup SecurityPCs

-----------------------------------------------------------------------------
(* Properties *)

CountOf(seq, e) == Cardinality({ i \in DOMAIN seq : seq[i] = e })

\* The deferred function of Rescue has finished handling a fault, either by
\* returning or by panicking itself.
RescueFinishedFault == pc \in {"done", "panicked"} /\ rec # Nil

IsXHR == r.XRequestedWith = XHR

\* C1: every fault of the downstream handler is absorbed by Rescue: no
\* panic, the original or one raised by the recovery code, leaves the
\* wrapped handler.
C1_FaultAbsorbed == pc # "panicked" /\ (pc = "done" => panicking = Nil)

\* C2: after a fault Rescue writes exactly one body, the one the table of
\* (dev, XHR) selects: the raw error message, the HTML fragment with the
\* message and the stack, the JSON apology, or the plain-text apology.
C2_ExactlyOneBody ==
    RescueFinishedFault =>
        /\ CountOf(events, "Write") = 1
        /\ Len(w.body) = Len(wNext.body) + 1
        /\ CASE dev /\ IsXHR ->
                    err # Nil /\ w.body[Len(w.body)] = err.msg
             [] dev /\ ~IsXHR ->
                    /\ err # Nil
                    /\ w.body[Len(w.body)] =
                          "<h2>" \o err.msg \o "</h2><pre>" \o Stack \o "</pre>"
             [] ~dev /\ IsXHR -> w.body[Len(w.body)] = ApologyJSON
             [] OTHER -> w.body[Len(w.body)] = Apology

\* C3 as stated: after a fault the status of the response is 500, whatever
\* the handler did to the response before it faulted.
C3_Status500Always == RescueFinishedFault => w.status = 500

\* C3 as amended: after a fault the status of the response is 500 when the
\* handler had not committed the response header before it faulted (nothing
\* written, or headers set only); when the handler had already written a
\* status or part of a body, the status stays the one the handler committed.
C3_Status500UnlessCommitted ==
    RescueFinishedFault =>
        w.status = IF wNext.wroteHeader THEN wNext.status ELSE 500

\* The handler set a header without committing, faulted, and the response
\* carries status 500.
C3_Witness ==
    /\ pc = "done"
    /\ rec # Nil
    /\ ~wNext.wroteHeader
    /\ wNext.header["Content-Type"] = <<"text/html">>
    /\ w.status = 500

\* C4: after a fault with dev false and an XHR request, the committed
\* response has status 500, the header Content-Type: application/json among
\* the headers committed with that status, and the JSON apology as body.
C4_JSONContentTypeCommitted ==
    (pc = "done" /\ rec # Nil /\ ~dev /\ IsXHR) =>
        /\ w.status = 500
        /\ w.sent["Content-Type"] = <<"application/json">>
        /\ w.body # <<>>
        /\ w.body[Len(w.body)] = ApologyJSON

\* C5: when the handler returns without faulting, Rescue leaves the response
\* exactly as the handler produced it, writes no status and no body, does
\* not invoke extraFields and sends nothing to the logging sink.
C5_NoFaultNoEffect ==
    (pc = "done" /\ rec = Nil) =>
        /\ w = wNext
        /\ events = <<"next">>
        /\ l = LogModule
        /\ logRecords = <<>>

\* The handler answered 404 with a body and returned normally.
C5_Witness ==
    /\ pc = "done"
    /\ rec = Nil
    /\ w.status = 404
    /\ w.body = <<"partial">>

\* C6: WithConfig sets Strict-Transport-Security, to the configured value,
\* if and only if that value is non-empty and the request host ends with
\* rootDomain.
C6_STSIffSuffix ==
    pc \in {"setXContentTypeOptions", "serveNext", "returned"} =>
        LET hostUnderRoot ==
                \E prefix \in SeqsUpTo(MaxHostLen) : r.Host = prefix \o rootDomain
            present == config.StrictTransportSecurity # "" /\ hostUnderRoot
        IN  w.header["Strict-Transport-Security"] =
                IF present THEN <<config.StrictTransportSecurity>> ELSE <<>>

\* A host strictly below a non-empty rootDomain got the header.
C6_Witness ==
    /\ pc = "returned"
    /\ rootDomain # <<>>
    /\ Len(r.Host) > Len(rootDomain)
    /\ w.header["Strict-Transport-Security"] = <<"max-age=2592000">>

\* C7: WithConfig never emits a header for a missing or empty directive:
\* X-Frame-Options and X-Content-Type-Options carry exactly the configured
\* value iff it is non-empty, the two policy headers carry the serialized
\* mapping iff that string is non-empty, and with every directive empty no
\* header is written at all.
C7_NoHeaderForEmptyDirective ==
    pc \in {"serveNext", "returned"} =>
        LET headerIs(name, value) ==
                w.header[name] = IF value = "" THEN <<>> ELSE <<value>>
            serializations(m) ==
                { SerializePolicy(m, o) : o \in RangeOrders(m) }
            allEmpty ==
                /\ config.XFrameOptions = ""
                /\ config.XContentTypeOptions = ""
                /\ config.StrictTransportSecurity = ""
                /\ DOMAIN config.ContentSecurityPolicy = {}
                /\ DOMAIN config.ContentSecurityPolicyReportOnly = {}
        IN  /\ headerIs("X-Frame-Options", config.XFrameOptions)
            /\ headerIs("X-Content-Type-Options", config.XContentTypeOptions)
            /\ csp \in serializations(config.ContentSecurityPolicy)
            /\ headerIs("Content-Security-Policy", csp)
            /\ cspReport \in serializations(config.ContentSecurityPolicyReportOnly)
            /\ headerIs("Content-Security-Policy-Report-Only", cspReport)
            /\ DOMAIN config.ContentSecurityPolicy = {}
                  => w.header["Content-Security-Policy"] = <<>>
            /\ DOMAIN config.ContentSecurityPolicyReportOnly = {}
                  => w.header["Content-Security-Policy-Report-Only"] = <<>>
            /\ config.StrictTransportSecurity = ""
                  => w.header["Strict-Transport-Security"] = <<>>
            /\ allEmpty =>
                  /\ w.header = NoHeaders
                  /\ \A i \in DOMAIN events : events[i] \notin HeaderNames

\* Some directives are empty and some are not: only the latter are emitted.
C7_Witness ==
    /\ pc = "returned"
    /\ config.XFrameOptions = ""
    /\ config.XContentTypeOptions = "nosniff"
    /\ DOMAIN config.ContentSecurityPolicy = Directives
    /\ DOMAIN config.ContentSecurityPolicyReportOnly = {}
    /\ w.header["X-Frame-Options"] = <<>>
    /\ w.header["X-Content-Type-Options"] = <<"nosniff">>
    /\ w.header["Content-Security-Policy"] # <<>>
    /\ w.header["Content-Security-Policy-Report-Only"] = <<>>

\* C8: each wrapper invokes the downstream handler exactly once per request:
\* WithConfig for every configuration and host, as its last step after all
\* its headers are set; Rescue once, before any recovery step, and never
\* again after a fault.
C8_NextExactlyOnce ==
    /\ nextCalls = CountOf(events, "next")
    /\ nextCalls <= 1
    /\ pc \in (RescuePCs \ {"start"}) \cup {"returned"} => nextCalls = 1
    /\ pc \in SecurityPCs \ {"returned"} => nextCalls = 0
    /\ pc = "returned" =>
          /\ events[Len(events)] = "next"
          /\ w.header = wNext.header
    /\ pc \in RescuePCs \ {"start"} => events[1] = "next"

\* WithConfig set headers and then delegated, once.
C8_Witness ==
    /\ pc = "returned"
    /\ nextCalls = 1
    /\ Len(events) > 2
    /\ ~HasSuffix(r.Host, rootDomain)

\* C9: classification of a non-nil fault always yields a non-nil error: the
\* fault itself when it is an error, the "error" entry of a mapping when
\* that entry is an error, and otherwise an error whose message is the
\* formatted fault.
C9_ClassifyTotal ==
    (pc \in {"extraFields", "log", "writeHeader", "body", "done", "panicked"}
     /\ rec # Nil) =>
        /\ err # Nil
        /\ IF IsError(rec) THEN err = rec
           ELSE IF /\ rec.kind = "map"
                   /\ "error" \in DOMAIN rec.entries
                   /\ IsError(rec.entries["error"])
                THEN err = rec.entries["error"]
                ELSE err = NewError(FormatV(rec))

\* C10: on every faulting request exactly one error record carrying the
\* classified error reaches the sink, and the steps of the recovery are, in
\* order: classification, extraFields (once, iff supplied), the log record,
\* the 500 status write, the body write.
C10_LogOnceInOrder ==
    RescueFinishedFault =>
        /\ Len(logRecords) = 1
        /\ logRecords[1].level = "error"
        /\ logRecords[1].err = err
        /\ events = <<"next", "classify">>
                    \o (IF extraFields = "func" THEN <<"extraFields">> ELSE <<>>)
                    \o <<"log", "WriteHeader", "Write">>
====
